---- MODULE Spec2Model ----
(***************************************************************************)
(* A model of the strategy registry (factory/strategy_factory.py), the     *)
(* linear pipeline (pipeline/base.py), its two steps (pipeline/steps.py)   *)
(* and the one concrete strategy (strategies/analysis_one.py).             *)
(*                                                                         *)
(* Objects live in three heaps (strategies, pipelines, steps); an object's *)
(* identity is its index in its heap.  The program is single threaded: an  *)
(* operation starts only when no Pipeline.run loop is in progress          *)
(* (pc = "ready"), and a loop in progress (pc = "run") only iterates.      *)
(***************************************************************************)
EXTENDS Integers, Sequences, FiniteSets, TLC

VARIABLES registry,    \* StrategyFactory._registry: name -> class
          strategies,  \* heap of strategy objects: [cls, pipeline]
          pipelines,   \* heap of Pipeline objects: each its self.steps (step ids)
          steps,       \* heap of step objects: their construction-time fields
          files,       \* the file system: path -> content
          pc,          \* "ready", or "run" inside the loop of Pipeline.run
          frame,       \* the locals of the Pipeline.run in progress
          calls,       \* the process() invocations of the operation in outcome
          outcome      \* the operation in progress or last completed, and how it ended

vars == <<registry, strategies, pipelines, steps, files, pc, frame, calls, outcome>>

(***************************************************************************)
(* Bounds of the model.                                                    *)
(***************************************************************************)
MaxStrategies == 2   \* strategy objects ever created
MaxPipelines == 2    \* Pipeline objects ever created (those of strategies included)
MaxStepObjects == 3  \* step objects ever created
MaxRows == 3         \* rows of a table handed to FilterStep.process in SpecFilter

(***************************************************************************)
(* Values threaded through a pipeline: None, a table, or a raised          *)
(* exception (a call either returns a value or raises); arg is the         *)
(* exception's args tuple.                                                 *)
(***************************************************************************)
None == [kind |-> "None"]

Table(columns, rows) == [kind |-> "Table", columns |-> columns, rows |-> rows]

Raise(type, arg) == [kind |-> "Error", type |-> type, arg |-> arg]

IsError(v) == v.kind = "Error"

NoFile == [kind |-> "NoFile"]

\* The file main() writes: "name,age,salary\nAlice,25,50000\n..."
DataCsvColumns == <<"name", "age", "salary">>

Alice == [name |-> "Alice", age |-> 25, salary |-> 50000]

Bob == [name |-> "Bob", age |-> 35, salary |-> 60000]

Carol == [name |-> "Carol", age |-> 45, salary |-> 70000]

DataCsv == Table(DataCsvColumns, <<Alice, Bob, Carol>>)

\* The numeric scalars of the model's tables.
Ages == {25, 30, 35, 45}

Salaries == {50000, 60000, 70000}

(***************************************************************************)
(* A predicate is represented by its truth set over the model's numeric    *)
(* scalars; calling it is a membership test.                               *)
(***************************************************************************)
age_greater_than_30 == {x \in Ages \cup Salaries : x > 30}

Call(condition_fn, x) == x \in condition_fn

(***************************************************************************)
(* Step objects and their process methods.                                 *)
(***************************************************************************)
ReadCSVStep(filepath) == [cls |-> "ReadCSVStep", filepath |-> filepath]

FilterStep(column, condition_fn) ==
    [cls |-> "FilterStep", column |-> column, condition_fn |-> condition_fn]

\* pd.read_csv(filepath): the table in the file, or FileNotFoundError.
read_csv(filepath, fs) ==
    IF fs[filepath] = NoFile THEN Raise("FileNotFoundError", <<filepath>>)
    ELSE fs[filepath]

\* ReadCSVStep.process ignores its input.
ReadCSVStep_process(step, data, fs) == read_csv(step.filepath, fs)

Range(s) == {s[i] : i \in DOMAIN s}

\* data[column]: the column as a series, one value per row.
GetColumn(data, column) == [i \in 1..Len(data.rows) |-> data.rows[i][column]]

\* series.apply(condition_fn): the boolean mask, one entry per row.
Apply(series, condition_fn) == [i \in DOMAIN series |-> Call(condition_fn, series[i])]

RECURSIVE TakeWhere(_, _, _)
TakeWhere(rows, mask, i) ==
    IF i > Len(rows) THEN <<>>
    ELSE (IF mask[i] THEN <<rows[i]>> ELSE <<>>) \o TakeWhere(rows, mask, i + 1)

\* data[mask]: a new table of the rows whose mask entry is True.
BooleanIndex(data, mask) == Table(data.columns, TakeWhere(data.rows, mask, 1))

\* A mask off by one row: the slip of indexing the mask from 0.
FilterStep_process_shifted(step, data) ==
    IF data.kind # "Table" THEN Raise("TypeError", <<"'NoneType' object is not subscriptable">>)
    ELSE IF step.column \notin Range(data.columns) THEN Raise("KeyError", <<step.column>>)
    ELSE LET mask == Apply(GetColumn(data, step.column), step.condition_fn)
             n == Len(data.rows)
         IN BooleanIndex(data, [i \in 1..n |-> mask[IF i = n THEN 1 ELSE i + 1]])

\* A filter that yields an empty table where the column is absent.
FilterStep_process_lenient(step, data) ==
    IF data.kind # "Table" THEN Raise("TypeError", <<"'NoneType' object is not subscriptable">>)
    ELSE IF step.column \notin Range(data.columns) THEN Table(data.columns, <<>>)
    ELSE BooleanIndex(data, Apply(GetColumn(data, step.column), step.condition_fn))

\* FilterStep.process: data[data[self.column].apply(self.condition_fn)]
FilterStep_process(step, data) ==
    IF data.kind # "Table" THEN Raise("TypeError", <<"'NoneType' object is not subscriptable">>)
    ELSE IF step.column \notin Range(data.columns) THEN Raise("KeyError", <<step.column>>)
    ELSE BooleanIndex(data, Apply(GetColumn(data, step.column), step.condition_fn))

\* step.process(data), dispatched on the step's class.
process(step, data, fs) ==
    IF step.cls = "ReadCSVStep" THEN ReadCSVStep_process(step, data, fs)
    ELSE FilterStep_process(step, data)

(***************************************************************************)
(* The inputs the operations are called with.                              *)
(***************************************************************************)
Names == {"analysis_one", "analysis_two"}

\* AnalysisOneStrategy, and a second AnalysisStrategy subclass to register.
StrategyClasses == {"AnalysisOneStrategy", "ReadOnlyStrategy"}

Paths == {"data.csv"}

FilterColumns == {"age", "height"}

Predicates == {age_greater_than_30}

\* The steps a caller adds to a pipeline of its own; a filter on the absent
\* column "height" comes from create.
StepConfigs ==
    {ReadCSVStep(f) : f \in Paths} \cup {FilterStep("age", p) : p \in Predicates}

(***************************************************************************)
(* StrategyFactory                                                         *)
(***************************************************************************)
\* A registration that rebinds the whole mapping instead of updating it.
registry_set_rebinding(reg, name, strategy_cls) == (name :> strategy_cls)

\* A registration that keeps the class first bound to the name.
registry_set_keeping(reg, name, strategy_cls) ==
    IF name \in DOMAIN reg THEN reg ELSE (name :> strategy_cls) @@ reg

\* cls._registry[name] = strategy_cls
registry_set(reg, name, strategy_cls) == (name :> strategy_cls) @@ reg

\* A lookup that falls back to a default class.
registry_get_default(reg, name) ==
    IF name \in DOMAIN reg THEN reg[name] ELSE "AnalysisOneStrategy"

\* cls._registry.get(name): the class, or None ("None" here)
registry_get(reg, name) == IF name \in DOMAIN reg THEN reg[name] ELSE "None"

Outcome(op, name, target, args, status, value) ==
    [op |-> op, name |-> name, target |-> target, args |-> args,
     status |-> status, value |-> value]

NoFrame == [pipeline |-> 0, i |-> 0, data |-> None, strategy |-> 0]

\* register(name)(strategy_cls): the decorator applied to a class; it returns the class.
register(name, strategy_cls) ==
    /\ pc = "ready"
    /\ registry' = registry_set(registry, name, strategy_cls)
    /\ outcome' = Outcome("register", name, 0, <<>>, "returned",
                          [kind |-> "Class", cls |-> strategy_cls])
    /\ calls' = <<>>
    /\ UNCHANGED <<strategies, pipelines, steps, files, pc, frame>>

(***************************************************************************)
(* Pipeline and the strategies' constructors                               *)
(***************************************************************************)
\* A constructor whose new pipeline starts from the first pipeline's list
\* (steps kept as a class attribute).
Pipeline__init__shared(pls) == IF pls = <<>> THEN <<>> ELSE pls[1]

\* Pipeline.__init__: self.steps = []
Pipeline__init__(pls) == <<>>

\* A constructor that hard-codes the column instead of taking the argument.
AnalysisOneStrategy__init__fixed(filepath, column, condition_fn) ==
    <<ReadCSVStep(filepath), FilterStep("age", condition_fn)>>

\* AnalysisOneStrategy.__init__: the steps it constructs and adds, in order.
AnalysisOneStrategy__init__(filepath, column, condition_fn) ==
    <<ReadCSVStep(filepath), FilterStep(column, condition_fn)>>

\* The second class reads the file and filters nothing.
ReadOnlyStrategy__init__(filepath, column, condition_fn) ==
    <<ReadCSVStep(filepath)>>

\* strategy_cls(*args): the steps the class's constructor adds.
Construct(strategy_cls, filepath, column, condition_fn) ==
    IF strategy_cls = "AnalysisOneStrategy"
    THEN AnalysisOneStrategy__init__(filepath, column, condition_fn)
    ELSE ReadOnlyStrategy__init__(filepath, column, condition_fn)

\* StrategyFactory.create(name, filepath, column, condition_fn)
create(name, filepath, column, condition_fn) ==
    LET strategy_cls == registry_get(registry, name)
        args == <<filepath, column, condition_fn>>
    IN /\ pc = "ready"
       /\ IF strategy_cls = "None"
          THEN /\ outcome' = Outcome("create", name, 0, args, "raised",
                                     Raise("ValueError", <<"Unknown strategy: ", name>>))
               /\ UNCHANGED <<strategies, pipelines, steps>>
          ELSE LET built == Construct(strategy_cls, filepath, column, condition_fn)
                   first == Pipeline__init__(pipelines)
                   sid == Len(strategies) + 1
                   pid == Len(pipelines) + 1
               IN /\ Len(strategies) < MaxStrategies
                  /\ Len(pipelines) < MaxPipelines
                  /\ Len(steps) + Len(built) <= MaxStepObjects
                  /\ steps' = steps \o built
                  /\ pipelines' = Append(pipelines,
                         first \o [k \in 1..Len(built) |-> Len(steps) + k])
                  /\ strategies' = Append(strategies,
                         [cls |-> strategy_cls, pipeline |-> pid])
                  /\ outcome' = Outcome("create", name, sid, args, "returned",
                                        [kind |-> "Strategy", id |-> sid])
       /\ calls' = <<>>
       /\ UNCHANGED <<registry, files, pc, frame>>

\* Pipeline(): a new pipeline outside any strategy.
Pipeline ==
    /\ pc = "ready"
    /\ Len(pipelines) < MaxPipelines
    /\ pipelines' = Append(pipelines, Pipeline__init__(pipelines))
    /\ outcome' = Outcome("Pipeline", "", Len(pipelines) + 1, <<>>, "returned",
                          [kind |-> "Pipeline", id |-> Len(pipelines) + 1])
    /\ calls' = <<>>
    /\ UNCHANGED <<registry, strategies, steps, files, pc, frame>>

\* A pipeline no strategy owns: one the caller made with Pipeline().
Standalone(p) == \A s \in 1..Len(strategies) : strategies[s].pipeline # p

\* pipeline.add_step(step) with a newly constructed step: self.steps.append(step).
\* A strategy's pipeline is used only through the strategy.
add_step(p, step) ==
    /\ pc = "ready"
    /\ Standalone(p)
    /\ Len(steps) < MaxStepObjects
    /\ steps' = Append(steps, step)
    /\ pipelines' = [pipelines EXCEPT ![p] = Append(@, Len(steps) + 1)]
    /\ outcome' = Outcome("add_step", "", p, <<>>, "returned", None)
    /\ calls' = <<>>
    /\ UNCHANGED <<registry, strategies, files, pc, frame>>

\* A run that starts from an empty table instead of None.
run_initial_data_table == Table(<<>>, <<>>)

\* Pipeline.run: data = None
run_initial_data == None

\* pipeline.run() is entered: data = None, the loop is at the first step.
run(p) ==
    /\ pc = "ready"
    /\ Standalone(p)
    /\ pc' = "run"
    /\ frame' = [pipeline |-> p, i |-> 1, data |-> run_initial_data, strategy |-> 0]
    /\ calls' = <<>>
    /\ outcome' = Outcome("run", "", p, <<>>, "running", None)
    /\ UNCHANGED <<registry, strategies, pipelines, steps, files>>

\* strategy.execute() is entered: return self.pipeline.run()
execute(s) ==
    /\ pc = "ready"
    /\ pc' = "run"
    /\ frame' = [pipeline |-> strategies[s].pipeline, i |-> 1,
                 data |-> run_initial_data, strategy |-> s]
    /\ calls' = <<>>
    /\ outcome' = Outcome("execute", "", s, <<>>, "running", None)
    /\ UNCHANGED <<registry, strategies, pipelines, steps, files>>

\* A loop body that hands every step None instead of the previous output.
loop_body_unthreaded(step, data, fs) ==
    [input |-> None, output |-> process(step, None, fs)]

\* The loop body of Pipeline.run, data = step.process(data): what the step
\* is handed and what it returns or raises.
loop_body(step, data, fs) == [input |-> data, output |-> process(step, data, fs)]

\* A loop that catches a step's exception and goes on with the data it had.
process_step_swallowing ==
    /\ pc = "run"
    /\ frame.i <= Len(pipelines[frame.pipeline])
    /\ LET sid == pipelines[frame.pipeline][frame.i]
           call == loop_body(steps[sid], frame.data, files)
       IN /\ calls' = Append(calls, [step |-> sid, input |-> call.input,
                                     output |-> call.output])
          /\ frame' = [frame EXCEPT !.i = @ + 1,
                            !.data = IF IsError(call.output) THEN frame.data
                                     ELSE call.output]
          /\ UNCHANGED <<pc, outcome>>
    /\ UNCHANGED <<registry, strategies, pipelines, steps, files>>

\* One iteration of "for step in self.steps: data = step.process(data)"; an
\* exception leaves the loop, run() and execute() and reaches the caller.
process_step ==
    /\ pc = "run"
    /\ frame.i <= Len(pipelines[frame.pipeline])
    /\ LET sid == pipelines[frame.pipeline][frame.i]
           call == loop_body(steps[sid], frame.data, files)
       IN /\ calls' = Append(calls, [step |-> sid, input |-> call.input,
                                     output |-> call.output])
          /\ IF IsError(call.output)
             THEN /\ pc' = "ready"
                  /\ frame' = NoFrame
                  /\ outcome' = [outcome EXCEPT !.status = "raised",
                                                !.value = call.output]
             ELSE /\ frame' = [frame EXCEPT !.i = @ + 1, !.data = call.output]
                  /\ UNCHANGED <<pc, outcome>>
    /\ UNCHANGED <<registry, strategies, pipelines, steps, files>>

\* The loop is exhausted: return data
run_return ==
    /\ pc = "run"
    /\ frame.i > Len(pipelines[frame.pipeline])
    /\ pc' = "ready"
    /\ frame' = NoFrame
    /\ outcome' = [outcome EXCEPT !.status = "returned", !.value = frame.data]
    /\ UNCHANGED <<registry, strategies, pipelines, steps, files, calls>>

\* main: open("data.csv", "w") and the write of the three rows
write_data_csv ==
    /\ pc = "ready"
    /\ files' = [files EXCEPT !["data.csv"] = DataCsv]
    /\ outcome' = Outcome("write", "data.csv", 0, <<>>, "returned", None)
    /\ calls' = <<>>
    /\ UNCHANGED <<registry, strategies, pipelines, steps, pc, frame>>

Init ==
    /\ registry = <<>>
    /\ strategies = <<>>
    /\ pipelines = <<>>
    /\ steps = <<>>
    /\ files = [f \in Paths |-> NoFile]
    /\ pc = "ready"
    /\ frame = NoFrame
    /\ calls = <<>>
    /\ outcome = Outcome("import", "", 0, <<>>, "returned", None)

Next ==
    \/ \E name \in Names, strategy_cls \in StrategyClasses : register(name, strategy_cls)
    \/ \E name \in Names, f \in Paths, c \in FilterColumns, p \in Predicates :
          create(name, f, c, p)
    \/ Pipeline
    \/ \E p \in 1..Len(pipelines), step \in StepConfigs : add_step(p, step)
    \/ \E p \in 1..Len(pipelines) : run(p)
    \/ \E s \in 1..Len(strategies) : execute(s)
    \/ process_step
    \/ run_return
    \/ write_data_csv

Spec == Init /\ [][Next]_vars

(***************************************************************************)
(* FilterStep.process as a function of its inputs: a FilterStep has been   *)
(* constructed with a column and a predicate, the caller holds a table     *)
(* (frame.data), and calls the step's process on it.                       *)
(***************************************************************************)
Dave == [name |-> "Dave", age |-> 30, salary |-> 50000]

Rows == {Alice, Bob, Carol, Dave}

SeqsUpTo(S, n) == UNION {[1..k -> S] : k \in 0..n}

InputTables == {Table(DataCsvColumns, rows) : rows \in SeqsUpTo(Rows, MaxRows)}

\* "height" is in no table.
InputColumns == {"age", "salary", "height"}

InputPredicates == SUBSET Ages \cup {age_greater_than_30}

InitFilter ==
    /\ registry = <<>>
    /\ strategies = <<>>
    /\ pipelines = <<>>
    /\ \E c \in InputColumns, p \in InputPredicates : steps = <<FilterStep(c, p)>>
    /\ files = [f \in Paths |-> NoFile]
    /\ pc = "ready"
    /\ \E T \in InputTables : frame = [NoFrame EXCEPT !.data = T]
    /\ calls = <<>>
    /\ outcome = Outcome("FilterStep", "", 1, <<>>, "returned", None)

\* steps[1].process(frame.data), called directly.
process_call ==
    /\ pc = "ready"
    /\ calls = <<>>
    /\ LET out == process(steps[1], frame.data, files)
       IN /\ calls' = <<[step |-> 1, input |-> frame.data, output |-> out]>>
          /\ outcome' = Outcome("process", "", 1, <<>>,
                                IF IsError(out) THEN "raised" ELSE "returned", out)
    /\ UNCHANGED <<registry, strategies, pipelines, steps, files, pc, frame>>

NextFilter == process_call

SpecFilter == InitFilter /\ [][NextFilter]_vars

(***************************************************************************)
(* The errors of the specification, as the exceptions the code raises.     *)
(***************************************************************************)
UnknownStrategy(name) == Raise("ValueError", <<"Unknown strategy: ", name>>)

ColumnNotFound(column) == Raise("KeyError", <<column>>)

SourceUnavailable(path) == Raise("FileNotFoundError", <<path>>)

\* The pipeline the run or execute in outcome is about.
RunPipeline ==
    IF outcome.op = "run" THEN outcome.target
    ELSE strategies[outcome.target].pipeline

\* The step objects of pipeline p, in order.
StepsOf(p) == [k \in DOMAIN pipelines[p] |-> steps[pipelines[p][k]]]

IsFilterCall(c) == steps[c.step].cls = "FilterStep" /\ c.input.kind = "Table"

\* C1: create(n, args) for a name n in the registry returns a new instance of
\* exactly the class bound to n, constructed with the forwarded args: the new
\* strategy is the newest object, its class is registry[n], and the steps of
\* its pipeline are the ones that class builds from filepath, column and
\* condition_fn.
C1_CreateReturnsRegisteredClass ==
    (outcome.op = "create" /\ outcome.name \in DOMAIN registry) =>
        /\ outcome.status = "returned"
        /\ outcome.value = [kind |-> "Strategy", id |-> Len(strategies)]
        /\ LET s == strategies[outcome.value.id]
               a == outcome.args
           IN /\ s.cls = registry[outcome.name]
              /\ s.pipeline = Len(pipelines)
              /\ s.cls = "AnalysisOneStrategy" =>
                     StepsOf(s.pipeline) = <<ReadCSVStep(a[1]), FilterStep(a[2], a[3])>>
              /\ s.cls = "ReadOnlyStrategy" =>
                     StepsOf(s.pipeline) = <<ReadCSVStep(a[1])>>

\* Both classes have been registered and created; the last create made an
\* AnalysisOneStrategy filtering on "height".
C1_Witness ==
    /\ outcome.op = "create"
    /\ outcome.status = "returned"
    /\ Len(strategies) = 2
    /\ strategies[1].cls = "ReadOnlyStrategy"
    /\ strategies[2].cls = "AnalysisOneStrategy"
    /\ outcome.args[2] = "height"

\* C2: create with a name that is not registered fails with UnknownStrategy
\* carrying the name, constructs no strategy, pipeline or step, and leaves the
\* registry as it was.
C2_UnknownNameFails ==
    [][(outcome'.op = "create" /\ outcome'.name \notin DOMAIN registry) =>
          /\ outcome'.status = "raised"
          /\ outcome'.value = UnknownStrategy(outcome'.name)
          /\ UNCHANGED <<registry, strategies, pipelines, steps>>]_vars

\* create("analysis_two") failed while "analysis_one" was registered and a
\* strategy existed.
C2_Witness ==
    /\ outcome.op = "create"
    /\ outcome.status = "raised"
    /\ outcome.name = "analysis_two"
    /\ DOMAIN registry = {"analysis_one"}
    /\ Len(strategies) = 1

\* A register call that binds a name already bound to a different class.
Rebinding ==
    /\ outcome'.op = "register"
    /\ outcome'.name \in DOMAIN registry
    /\ registry[outcome'.name] # outcome'.value.cls

\* C3 as claimed: registering a different class under a registered name fails
\* and the class bound before stays bound.
C3_DuplicateRegistrationFails ==
    [][Rebinding => (outcome'.status = "raised" /\ registry' = registry)]_vars

\* C3 as amended: registering a different class under a registered name
\* succeeds and rebinds the name to the new class, the other names keeping
\* theirs (a later create of the name then makes the new class, by C1).
C3_DuplicateRegistrationOverwrites ==
    [][Rebinding =>
          /\ outcome'.status = "returned"
          /\ registry' = [registry EXCEPT ![outcome'.name] = outcome'.value.cls]]_vars

\* "analysis_one" is the only name ever registered, a strategy of class
\* AnalysisOneStrategy was created from it, and the last operation registered
\* ReadOnlyStrategy under it: a rebinding took place.
C3_Witness ==
    /\ outcome.op = "register"
    /\ outcome.status = "returned"
    /\ DOMAIN registry = {"analysis_one"}
    /\ registry["analysis_one"] = "ReadOnlyStrategy"
    /\ \E s \in 1..Len(strategies) : strategies[s].cls = "AnalysisOneStrategy"

\* C4: during and after run(), process has been invoked once on each of the
\* first steps of the pipeline, in the order added; the first got None, each
\* later one the output of the one before; a run that returned invoked every
\* step and returned the last step's output.
C4_RunThreadsStepsInOrder ==
    outcome.op \in {"run", "execute"} =>
        LET added == pipelines[RunPipeline]
        IN /\ Len(calls) <= Len(added)
           /\ \A k \in DOMAIN calls : calls[k].step = added[k]
           /\ calls # <<>> => calls[1].input = None
           /\ \A k \in 2..Len(calls) : calls[k].input = calls[k - 1].output
           /\ pc = "run" => Len(calls) = frame.i - 1
           /\ outcome.status = "returned" =>
                  /\ Len(calls) = Len(added)
                  /\ added # <<>> => outcome.value = calls[Len(calls)].output

\* A run of three steps returned: a read, and two filters fed with tables.
C4_Witness ==
    /\ outcome.op = "run"
    /\ outcome.status = "returned"
    /\ Len(calls) = 3
    /\ calls[2].input = DataCsv
    /\ calls[3].input.kind = "Table"
    /\ outcome.value.kind = "Table"

\* C5: run() on a pipeline without steps returns None and invokes no step.
C5_EmptyRunReturnsNone ==
    (outcome.op = "run" /\ outcome.status = "returned"
        /\ pipelines[outcome.target] = <<>>) =>
        (outcome.value = None /\ calls = <<>>)

C5_Witness ==
    /\ outcome.op = "run"
    /\ outcome.status = "returned"
    /\ pipelines[outcome.target] = <<>>

RECURSIVE IsSubsequence(_, _)
\* Whether the rows a are rows of b, in b's order.
IsSubsequence(a, b) ==
    IF a = <<>> THEN TRUE
    ELSE IF b = <<>> THEN FALSE
    ELSE IF Head(a) = Head(b) THEN IsSubsequence(Tail(a), Tail(b))
    ELSE IsSubsequence(a, Tail(b))

\* C6: FilterStep(c, p).process(T), c a column of T, returns a table whose
\* rows all satisfy p on c, which holds every row of T that does (as many rows
\* as T has satisfying ones), and whose rows are a subsequence of T's; the
\* caller's T is as it was; and Alice 25, Bob 35, Carol 45 filtered on
\* age > 30 give Bob, Carol.
C6_FilterKeepsSatisfyingRowsInOrder ==
    \A k \in DOMAIN calls :
        LET T == calls[k].input
            out == calls[k].output
            c == steps[calls[k].step].column
            p == steps[calls[k].step].condition_fn
        IN (IsFilterCall(calls[k]) /\ c \in Range(T.columns)) =>
              /\ out.kind = "Table"
              /\ \A i \in DOMAIN out.rows : Call(p, out.rows[i][c])
              /\ Len(out.rows) = Cardinality({i \in DOMAIN T.rows : Call(p, T.rows[i][c])})
              /\ IsSubsequence(out.rows, T.rows)
              /\ frame.data = T
              /\ (T.rows = <<Alice, Bob, Carol>> /\ c = "age" /\ p = age_greater_than_30)
                     => out.rows = <<Bob, Carol>>

C6_Witness ==
    /\ calls # <<>>
    /\ steps[1] = FilterStep("age", age_greater_than_30)
    /\ calls[1].input.rows = <<Alice, Bob, Carol>>
    /\ calls[1].output.rows = <<Bob, Carol>>

\* C7: FilterStep.process on a table without the configured column raises
\* ColumnNotFound, returns no table, and the error ends the run and is the
\* outcome of run() or execute().
C7_AbsentColumnRaises ==
    \A k \in DOMAIN calls :
        (IsFilterCall(calls[k])
            /\ steps[calls[k].step].column \notin Range(calls[k].input.columns)) =>
              /\ calls[k].output = ColumnNotFound(steps[calls[k].step].column)
              /\ k = Len(calls)
              /\ pc = "ready"
              /\ outcome.status = "raised"
              /\ outcome.value = calls[k].output

\* execute() of a strategy filtering on "height" raised after reading the file.
C7_Witness ==
    /\ outcome.op = "execute"
    /\ outcome.status = "raised"
    /\ Len(calls) = 2
    /\ calls[2].input = DataCsv
    /\ outcome.value = ColumnNotFound("height")

\* C8: a step that fails is the last one invoked, no step is invoked twice,
\* the run is over and its outcome is that step's error, not a value; when
\* the source step fails for a missing file the filter step is not invoked.
C8_FailingStepAbortsRun ==
    outcome.op \in {"run", "execute"} =>
        /\ \A k \in DOMAIN calls :
              /\ calls[k].step = pipelines[RunPipeline][k]
              /\ IsError(calls[k].output) =>
                    /\ k = Len(calls)
                    /\ pc = "ready"
                    /\ outcome.status = "raised"
                    /\ outcome.value = calls[k].output
        /\ outcome.status = "raised" =>
              (calls # <<>> /\ outcome.value = calls[Len(calls)].output)
        /\ outcome.status = "returned" =>
              \A k \in DOMAIN calls : ~IsError(calls[k].output)
        /\ (calls # <<>> /\ calls[1].output = SourceUnavailable("data.csv")) =>
              Len(calls) = 1

\* execute() of an AnalysisOneStrategy failed at the read of a missing file.
C8_Witness ==
    /\ outcome.op = "execute"
    /\ outcome.status = "raised"
    /\ outcome.value = SourceUnavailable("data.csv")
    /\ Len(pipelines[RunPipeline]) = 2
    /\ steps[pipelines[RunPipeline][2]].cls = "FilterStep"
    /\ Len(calls) = 1

\* C9: only register changes the registry, and no step of any operation
\* removes a name or, register apart, rebinds one.
C9_OnlyRegisterChangesRegistry ==
    [][/\ registry' # registry => outcome'.op = "register"
       /\ DOMAIN registry \subseteq DOMAIN registry']_vars

\* Both names are registered, and a strategy has been created and executed.
C9_Witness ==
    /\ DOMAIN registry = Names
    /\ outcome.op = "execute"
    /\ outcome.status = "returned"

\* No two strategies share a pipeline or a step; nor do any two pipelines
\* share a step, and no pipeline holds a step twice.
Independent ==
    /\ \A s, t \in 1..Len(strategies) :
          s # t =>
              /\ strategies[s].pipeline # strategies[t].pipeline
              /\ Range(pipelines[strategies[s].pipeline])
                     \cap Range(pipelines[strategies[t].pipeline]) = {}
    /\ \A p, q \in 1..Len(pipelines) :
          p # q => Range(pipelines[p]) \cap Range(pipelines[q]) = {}
    /\ \A p \in 1..Len(pipelines) :
          Cardinality(Range(pipelines[p])) = Len(pipelines[p])

\* C10: strategies made by create have their own pipeline and steps; create
\* and add_step leave every other pipeline and every existing step as they
\* were; run and execute change no pipeline, step or strategy.
C10_StrategiesAreIndependent ==
    [][/\ Independent'
       /\ outcome'.op \in {"create", "add_step", "Pipeline"} =>
             /\ \A q \in 1..Len(pipelines) :
                   (outcome'.op = "add_step" /\ q = outcome'.target)
                       \/ pipelines'[q] = pipelines[q]
             /\ \A k \in 1..Len(steps) : steps'[k] = steps[k]
             /\ \A s \in 1..Len(strategies) : strategies'[s] = strategies[s]
       /\ outcome'.op \in {"run", "execute"} =>
             UNCHANGED <<strategies, pipelines, steps>>]_vars

\* Two strategies were created from the same name and the first was executed.
C10_Witness ==
    /\ Len(strategies) = 2
    /\ strategies[1].cls = strategies[2].cls
    /\ outcome.op = "execute"
    /\ outcome.target = 1
    /\ outcome.status = "returned"

====
